---- MODULE Spec2Model ----
(***************************************************************************)
(* A model of libbpf-rs/src/object.rs: the ObjectBuilder open/load path    *)
(* (from_path, from_memory), the Object / MapBuilder / Map handles and the *)
(* flag sets.  The native library (bpf_object__open_file,                  *)
(* bpf_object__open_mem, bpf_object__load) and the kernel are the          *)
(* environment: their answers are nondeterministic choices.                *)
(*                                                                         *)
(* Methods whose body is `unimplemented!()` are modelled as what that      *)
(* macro does: the call panics, returns nothing and changes nothing.       *)
(***************************************************************************)
EXTENDS Integers, Sequences, FiniteSets, TLC

\* ------------------------------------------------------------------ bounds

\* Longest path / name / key / value (in units) the callers pass.
MaxLen == 2
\* Native bpf_object handles the native library can hand out.
MaxHandles == 2
\* Map values (the original and its clones) held at one time.
MaxClones == 2
\* Key and value sizes the artifact declares for its map.
KeySize == 1
ValueSize == 1

\* --------------------------------------------------------------- constants

\* MapFlags (bitflags, u64).
ANY == 0
NO_EXIST == 1
EXIST == 2
LOCK == 4

MapFlagValues == {ANY, NO_EXIST, EXIST, LOCK}

\* The null pointer, as a handle and as a C string pointer.
NULL == 0
NULLSTR == <<"null">>

\* ------------------------------------------------------------- value sets

\* Units of an OS path: an ordinary character, an interior zero byte, and a
\* byte sequence that is not valid unicode (OsStr allows it, str does not).
PathUnits == {"a", "NUL", "BAD"}
\* Units of a Rust str / String: always valid unicode.
StrUnits == {"a", "NUL"}
Bytes == {0, 1}

SeqsUpTo(S, n) == UNION {[1..k -> S] : k \in 0..n}

Paths == SeqsUpTo(PathUnits, MaxLen)
Names == SeqsUpTo(StrUnits, MaxLen)
ByteStrings == SeqsUpTo(Bytes, MaxLen)
\* In-memory artifacts handed to from_memory.
Mems == SeqsUpTo(Bytes, 1)
\* What bpf_object__load can answer: 0, a negative errno, a positive code.
LoadRets == {-1, 0, 1}
Handles == 1..MaxHandles

\* -------------------------------------------------------------- results

Res(kind, val) == [kind |-> kind, val |-> val]
Ok == Res("Ok", <<>>)
OkNone == Res("OkNone", <<>>)
OkSome(v) == Res("OkSome", v)
InvalidInput == Res("InvalidInput", <<>>)
Internal == Res("Internal", <<>>)
\* unimplemented!(): the call panics; no value is returned.
Unimplemented == Res("panic", <<>>)
NoResult == Res("none", <<>>)

IsErr(r) == r.kind \in {"InvalidInput", "Internal"}

\* ---------------------------------------------------------------- state

VARIABLES
    builder,      \* ObjectBuilder: [name, relaxed_maps]
    liveHandles,  \* native bpf_object handles opened and not closed
    loaded,       \* native handles whose bpf_object__load returned 0
    maps,         \* the Map values held (the original and clones)
    kmap,         \* the kernel map's contents: key -> value
    last,         \* the last call made: operation, arguments, native calls, result
    closes,       \* times a Map's / a Program's descriptor has been closed
    progs,        \* the Program values held: value -> attach type of its program
    drv,          \* the example driver (tcp_option main)
    fl            \* a flag value being composed: [set, members, bits]

\* The state outside the ObjectBuilder, the native objects and the Map values.
others == <<closes, progs, drv, fl>>

vars == <<builder, liveHandles, loaded, maps, kmap, last, closes, progs, drv, fl>>

NoOpts == [object_name |-> NULLSTR, relaxed_maps |-> FALSE,
           relaxed_core_relocs |-> FALSE, pin_root_path |-> NULLSTR,
           attach_prog_fd |-> 0, kconfig |-> NULLSTR]

\* One native call: the function, the options and handle it was given or
\* returned, and its return code.
Native(fn, opts, handle, ret) ==
    [fn |-> fn, opts |-> opts, handle |-> handle, ret |-> ret]

Call(op, path, name, mem, key, value, flags, via, trace, result) ==
    [op |-> op, path |-> path, name |-> name, mem |-> mem, key |-> key,
     value |-> value, flags |-> flags, via |-> via, trace |-> trace,
     result |-> result]

NoCall == Call("none", <<>>, <<>>, <<>>, <<>>, <<>>, ANY, 0, <<>>, NoResult)

\* A call on a Map value: no path, name or artifact.
MapCall(op, via, key, value, flags, result) ==
    Call(op, <<>>, <<>>, <<>>, key, value, flags, via, <<>>, result)

\* ------------------------------------------------------- string conversion

Contains(s, u) == \E i \in 1..Len(s) : s[i] = u

\* Path::to_str: None when the path is not valid unicode, else the same units.
to_str_lossy(path) == [ok |-> TRUE, s |-> path]
to_str(path) ==
    IF Contains(path, "BAD") THEN [ok |-> FALSE, s |-> <<>>]
    ELSE [ok |-> TRUE, s |-> path]

\* util::str_to_cstring: a C string is the units followed by a terminating
\* zero; a str holding an interior zero byte has no C string.
str_to_cstring(s) ==
    IF Contains(s, "NUL") THEN [ok |-> FALSE, c |-> <<>>]
    ELSE [ok |-> TRUE, c |-> Append(s, "0")]

\* CString::to_bytes: the contents without the terminating zero.
to_bytes(c) == SubSeq(c, 1, Len(c) - 1)

\* --------------------------------------------------------- ObjectBuilder

\* Default for ObjectBuilder.
DefaultBuilder == [name |-> <<>>, relaxed_maps |-> FALSE]

set_name(n) ==
    /\ builder' = [builder EXCEPT !.name = n]
    /\ last' = Call("set_name", <<>>, n, <<>>, <<>>, <<>>, ANY, 0, <<>>, Ok)
    /\ UNCHANGED <<liveHandles, loaded, maps, kmap, others>>

set_relaxed_maps(b) ==
    /\ builder' = [builder EXCEPT !.relaxed_maps = b]
    /\ last' = Call("set_relaxed_maps", <<>>, <<>>, <<>>, <<>>, <<b>>, ANY, 0, <<>>, Ok)
    /\ UNCHANGED <<liveHandles, loaded, maps, kmap, others>>

\* `&mut self` of from_path and from_memory: the builder is borrowed for the
\* call and stays with the caller, as it was, when the call is over.
Taken(self) == DefaultBuilder
Borrowed(self) == self

\* ObjectBuilder::opts
opts_NoName(self, name) ==
    [object_name |-> NULLSTR, relaxed_maps |-> self.relaxed_maps,
     relaxed_core_relocs |-> FALSE, pin_root_path |-> NULLSTR,
     attach_prog_fd |-> 0, kconfig |-> NULLSTR]
opts_NeverRelaxed(self, name) ==
    [object_name |-> name, relaxed_maps |-> FALSE,
     relaxed_core_relocs |-> FALSE, pin_root_path |-> NULLSTR,
     attach_prog_fd |-> 0, kconfig |-> NULLSTR]
opts(self, name) ==
    [object_name |-> name, relaxed_maps |-> self.relaxed_maps,
     relaxed_core_relocs |-> FALSE, pin_root_path |-> NULLSTR,
     attach_prog_fd |-> 0, kconfig |-> NULLSTR]

\* Object::new: unimplemented!().
Object_new(ptr) == Unimplemented

\* `if obj.is_null()`
OpenFailed_Never(obj) == FALSE
OpenFailed(obj) == obj = NULL

\* The native objects live once the native open has returned `obj`: nothing
\* in from_path or from_memory closes or frees any native object.
Opened_OthersClosed(live, obj) == {obj}
Opened(live, obj) == live \cup {obj}

\* `if ret != 0`
LoadFailedOnlyNegative(ret) == ret < 0
LoadFailed(ret) == ret # 0

\* What the native open can answer: null, or a handle not yet in use.
NativeOpenAnswers ==
    LET free == Handles \ liveHandles IN
    {NULL} \cup (IF free = {} THEN {}
                 ELSE {CHOOSE h \in free : \A g \in free : h <= g})

\* The native open, the null check, the native load, its check and the
\* construction of the Object: the tail from_path and from_memory share.
\* `call` is the call record without its native calls and result.
OpenAndLoad(call, fn, o) ==
    \E obj \in NativeOpenAnswers :
        LET opened == Native(fn, o, obj, 0) IN
        IF OpenFailed(obj)
        THEN /\ last' = [call EXCEPT !.trace = <<opened>>, !.result = Internal]
             /\ UNCHANGED <<liveHandles, loaded>>
        ELSE \E ret \in LoadRets :
                LET done == <<opened, Native("bpf_object__load", NoOpts, obj, ret)>> IN
                /\ liveHandles' = Opened(liveHandles, obj)
                /\ IF LoadFailed(ret)
                   THEN /\ last' = [call EXCEPT !.trace = done, !.result = Internal]
                        /\ UNCHANGED loaded
                   ELSE /\ last' = [call EXCEPT !.trace = done,
                                                !.result = Object_new(obj)]
                        /\ loaded' = loaded \cup {obj}

from_path(path) ==
    LET call == Call("from_path", path, <<>>, <<>>, <<>>, <<>>, ANY, 0, <<>>, NoResult)
        path_str == to_str(path)
        path_c == str_to_cstring(path_str.s)
        name == str_to_cstring(builder.name)
        name_ptr == IF builder.name # <<>> THEN name.c ELSE NULLSTR
    IN
    /\ builder' = Borrowed(builder)
    /\ UNCHANGED <<maps, kmap, others>>
    /\ IF ~path_str.ok \/ ~path_c.ok \/ ~name.ok
       THEN /\ last' = [call EXCEPT !.result = InvalidInput]
            /\ UNCHANGED <<liveHandles, loaded>>
       ELSE OpenAndLoad(call, "bpf_object__open_file", opts(builder, name_ptr))

from_memory(n, mem) ==
    LET call == Call("from_memory", <<>>, n, mem, <<>>, <<>>, ANY, 0, <<>>, NoResult)
        name == str_to_cstring(n)
        name_ptr == IF to_bytes(name.c) # <<>> THEN name.c ELSE NULLSTR
    IN
    /\ builder' = Borrowed(builder)
    /\ UNCHANGED <<maps, kmap, others>>
    /\ IF ~name.ok
       THEN /\ last' = [call EXCEPT !.result = InvalidInput]
            /\ UNCHANGED <<liveHandles, loaded>>
       ELSE OpenAndLoad(call, "bpf_object__open_mem", opts(builder, name_ptr))

\* ----------------------------------------------- Object, MapBuilder, Map

\* Keys and values of the sizes the map declares.
SizedKeys == [1..KeySize -> Bytes]
SizedValues == [1..ValueSize -> Bytes]

Present(k) == \E e \in kmap : e.key = k
ValueOf(k) == (CHOOSE e \in kmap : e.key = k).value

\* A call that panics: its record is all it leaves behind.
Panicked(call) ==
    /\ last' = call
    /\ UNCHANGED <<builder, liveHandles, loaded, maps, kmap, others>>

\* Object::map: unimplemented!().
Object_map(n) ==
    /\ n \in Names
    /\ Panicked(Call("Object::map", <<>>, n, <<>>, <<>>, <<>>, ANY, 0, <<>>,
                     Unimplemented))

\* MapBuilder::load: unimplemented!(); no Map is returned.
MapBuilder_load ==
    /\ last.op # "MapBuilder::load"
    /\ Panicked(Call("MapBuilder::load", <<>>, <<>>, <<>>, <<>>, <<>>, ANY, 0, <<>>,
                     Unimplemented))

\* `pub struct Map {}`: the type has no field, so a value of it is written
\* `Map {}` and holds no descriptor; this is the only way the code yields one.
Map_value ==
    /\ maps = {}
    /\ maps' = {1}
    /\ last' = MapCall("Map {}", 1, <<>>, <<>>, ANY, Ok)
    /\ UNCHANGED <<builder, liveHandles, loaded, kmap, others>>

\* #[derive(Clone)] on Map: another value of the field-less struct.
Map_clone(via) ==
    /\ via \in maps
    /\ Cardinality(maps) < MaxClones
    /\ LET c == CHOOSE i \in 1..MaxClones : i \notin maps IN
       /\ maps' = maps \cup {c}
       /\ last' = MapCall("Map::clone", via, <<>>, <<>>, ANY, Ok)
    /\ UNCHANGED <<builder, liveHandles, loaded, kmap, others>>

\* Dropping a Map value: the struct has no field and no Drop impl, so the
\* drop runs no code and closes nothing.
Map_drop(via) ==
    /\ via \in maps
    /\ maps' = maps \ {via}
    /\ last' = MapCall("drop(Map)", via, <<>>, <<>>, ANY, Ok)
    /\ UNCHANGED <<builder, liveHandles, loaded, kmap, others>>

\* Map::key_size: unimplemented!().
Map_key_size(via) ==
    /\ via \in maps
    /\ Panicked(MapCall("Map::key_size", via, <<>>, <<>>, ANY, Unimplemented))

\* Map::value_size: unimplemented!().
Map_value_size(via) ==
    /\ via \in maps
    /\ Panicked(MapCall("Map::value_size", via, <<>>, <<>>, ANY, Unimplemented))

\* Map::lookup: unimplemented!().
Map_lookup(via, key, flags) ==
    /\ via \in maps
    /\ Panicked(MapCall("Map::lookup", via, key, <<>>, flags, Unimplemented))

\* Map::delete: unimplemented!().
Map_delete(via, key) ==
    /\ via \in maps
    /\ Panicked(MapCall("Map::delete", via, key, <<>>, ANY, Unimplemented))

\* Map::lookup_and_delete: unimplemented!().
Map_lookup_and_delete(via, key, flags) ==
    /\ via \in maps
    /\ Panicked(MapCall("Map::lookup_and_delete", via, key, <<>>, flags, Unimplemented))

\* Map::update: unimplemented!().
Map_update(via, key, value, flags) ==
    /\ via \in maps
    /\ Panicked(MapCall("Map::update", via, key, value, flags, Unimplemented))

\* The kernel side of the map: a loaded program stores or removes an entry.
KernelStore(k, v) ==
    /\ kmap' = {e \in kmap : e.key # k} \cup {[key |-> k, value |-> v]}
    /\ last' = MapCall("kernel store", 0, k, v, ANY, Ok)
    /\ UNCHANGED <<builder, liveHandles, loaded, maps, others>>

KernelRemove(k) ==
    /\ Present(k)
    /\ kmap' = {e \in kmap : e.key # k}
    /\ last' = MapCall("kernel remove", 0, k, <<>>, ANY, Ok)
    /\ UNCHANGED <<builder, liveHandles, loaded, maps, others>>

\* ------------------------------------------------ ProgramBuilder, Program

\* a << n on u64.  Every shift in the source is of 1 by at most 10 places,
\* so no bit is shifted out of the 64.
Shl(a, n) == a * 2^n

\* CgroupAttachFlags (bitflags, u64).
ALLOW_OVERRIDE == 1
ALLOW_MULTI == Shl(1, 1)
REPLACE == Shl(1, 2)

\* Every value of CgroupAttachFlags: the three bits are distinct, so the
\* unions of them are 0..7.
CgroupAttachFlagValues == 0..(ALLOW_OVERRIDE + ALLOW_MULTI + REPLACE)

\* The hook kind a program of the artifact is for.
AttachTypes == {"cgroup", "perf_event"}

\* Descriptors a caller passes to attach: an invalid one and an open one.
Fds == {-1, 3}

\* A call on a Program value; the descriptor argument is kept in `key`.
ProgCall(op, via, fd, flags, result) ==
    Call(op, <<>>, <<>>, <<>>, <<fd>>, <<>>, flags, via, <<>>, result)

\* Object::prog: unimplemented!().
Object_prog(n) ==
    /\ n \in Names
    /\ Panicked(Call("Object::prog", <<>>, n, <<>>, <<>>, <<>>, ANY, 0, <<>>,
                     Unimplemented))

\* ProgramBuilder::load: unimplemented!(); no Program is returned.
ProgramBuilder_load ==
    /\ last.op # "ProgramBuilder::load"
    /\ Panicked(Call("ProgramBuilder::load", <<>>, <<>>, <<>>, <<>>, <<>>, ANY, 0, <<>>,
                     Unimplemented))

\* `pub struct Program {}`: a field-less struct, written `Program {}`; `t` is
\* the attach type of the program the caller means it to stand for.
Program_value(t) ==
    /\ DOMAIN progs = {}
    /\ progs' = (1 :> t)
    /\ last' = ProgCall("Program {}", 1, 0, 0, Ok)
    /\ UNCHANGED <<builder, liveHandles, loaded, maps, kmap, closes, drv, fl>>

\* #[derive(Clone)] on Program.
Program_clone(via) ==
    /\ via \in DOMAIN progs
    /\ Cardinality(DOMAIN progs) < MaxClones
    /\ LET c == CHOOSE i \in 1..MaxClones : i \notin DOMAIN progs IN
       /\ progs' = (c :> progs[via]) @@ progs
       /\ last' = ProgCall("Program::clone", via, 0, 0, Ok)
    /\ UNCHANGED <<builder, liveHandles, loaded, maps, kmap, closes, drv, fl>>

\* Dropping a Program value: no field, no Drop impl, nothing is closed.
Program_drop(via) ==
    /\ via \in DOMAIN progs
    /\ progs' = [i \in DOMAIN progs \ {via} |-> progs[i]]
    /\ last' = ProgCall("drop(Program)", via, 0, 0, Ok)
    /\ UNCHANGED <<builder, liveHandles, loaded, maps, kmap, closes, drv, fl>>

\* Program::attach_type: unimplemented!().
Program_attach_type(via) ==
    /\ via \in DOMAIN progs
    /\ Panicked(ProgCall("Program::attach_type", via, 0, 0, Unimplemented))

\* Program::attach_cgroup: unimplemented!(); no Link is returned.
Program_attach_cgroup(via, cgroup_fd, flags) ==
    /\ via \in DOMAIN progs
    /\ Panicked(ProgCall("Program::attach_cgroup", via, cgroup_fd, flags, Unimplemented))

\* Program::attach_perf_event: unimplemented!(); no Link is returned.
Program_attach_perf_event(via, pfd) ==
    /\ via \in DOMAIN progs
    /\ Panicked(ProgCall("Program::attach_perf_event", via, pfd, 0, Unimplemented))

\* ------------------------------------------------------------ the driver

\* main before its first statement.  `opened`, `loaded` and `everAttached`
\* record that the step was ever made; `link` is whether `_kprobe` is held
\* and `attached` whether the cgroup attachment is live.
DriverStart ==
    [pc |-> "start", verbose |-> FALSE, ip |-> "none", rlimit |-> FALSE,
     handler |-> FALSE, running |-> FALSE, debug |-> FALSE, opened |-> FALSE,
     loaded |-> FALSE, cgroup_fd |-> -1, link |-> FALSE, attached |-> FALSE,
     everAttached |-> FALSE, socket_fd |-> -1, sock_attached |-> FALSE,
     result |-> "none"]

DriverFrame ==
    UNCHANGED <<builder, liveHandles, loaded, maps, kmap, last, closes, progs, fl>>

\* Dropping a Link detaches it: the attachment is gone.
LinkDropped(d) == [d EXCEPT !.link = FALSE, !.attached = FALSE]

\* main is left (a `?` returned the error, an unwrap panicked, or the final
\* Ok(())): its locals are dropped, the Link among them.
Exit(d, result) == LinkDropped([d EXCEPT !.pc = "done", !.result = result])

\* `let _kprobe = ...attach_cgroup(cgroup_fd).unwrap()`: the Link is bound to
\* a named local, so it is held to the end of main.
LetUnderscore(d) == LinkDropped([d EXCEPT !.everAttached = TRUE])
LetKprobe(d) == [d EXCEPT !.link = TRUE, !.attached = TRUE, !.everAttached = TRUE]

\* Command::parse()
Driver_parse(verbose, ip) ==
    /\ drv.pc = "start"
    /\ drv' = [drv EXCEPT !.pc = "parsed", !.verbose = verbose, !.ip = ip]
    /\ DriverFrame

\* bump_memlock_rlimit()?
Driver_bump_memlock_rlimit(ok) ==
    /\ drv.pc = "parsed"
    /\ drv' = IF ok THEN [drv EXCEPT !.pc = "bumped", !.rlimit = TRUE]
              ELSE Exit(drv, "Err")
    /\ DriverFrame

\* running = true; ctrlc::set_handler(..)?
Driver_set_handler(ok) ==
    /\ drv.pc = "bumped"
    /\ drv' = IF ok THEN [drv EXCEPT !.pc = "handled", !.running = TRUE,
                                     !.handler = TRUE]
              ELSE Exit([drv EXCEPT !.running = TRUE], "Err")
    /\ DriverFrame

\* builder.obj_builder.debug(true) if verbose; builder.open()?
Driver_open(ok) ==
    /\ drv.pc = "handled"
    /\ drv' = IF ok THEN [drv EXCEPT !.pc = "opened", !.debug = drv.verbose,
                                     !.opened = TRUE]
              ELSE Exit([drv EXCEPT !.debug = drv.verbose], "Err")
    /\ DriverFrame

\* the rodata assignments; open.load()?
Driver_load(ok) ==
    /\ drv.pc = "opened"
    /\ drv' = IF ok THEN [drv EXCEPT !.pc = "loaded", !.loaded = TRUE]
              ELSE Exit(drv, "Err")
    /\ DriverFrame

\* OpenOptions ... .open("/sys/fs/cgroup").unwrap().into_raw_fd()
Driver_open_cgroup(ok) ==
    /\ drv.pc = "loaded"
    /\ drv' = IF ok THEN [drv EXCEPT !.pc = "cgroup", !.cgroup_fd = 3]
              ELSE Exit(drv, "panic")
    /\ DriverFrame

\* let _kprobe = ... .attach_cgroup(cgroup_fd).unwrap()
Driver_attach_cgroup(ok) ==
    /\ drv.pc = "cgroup"
    /\ drv' = IF ok THEN [LetKprobe(drv) EXCEPT !.pc = "attached"]
              ELSE Exit(drv, "panic")
    /\ DriverFrame

\* open_fd()?
Driver_open_fd(ok) ==
    /\ drv.pc = "attached"
    /\ drv' = IF ok THEN [drv EXCEPT !.pc = "socket", !.socket_fd = 4]
              ELSE Exit(drv, "Err")
    /\ DriverFrame

\* setsockopt(SO_ATTACH_BPF): its result is bound to _result and not looked at.
Driver_setsockopt(ok) ==
    /\ drv.pc = "socket"
    /\ drv' = [drv EXCEPT !.pc = "loop", !.sock_attached = ok]
    /\ DriverFrame

\* while running.load(..) { sleep(1s) }; Ok(())
Driver_loop_test ==
    /\ drv.pc = "loop"
    /\ drv' = IF drv.running THEN [drv EXCEPT !.pc = "sleeping"]
              ELSE Exit(drv, "Ok")
    /\ DriverFrame

Driver_wake ==
    /\ drv.pc = "sleeping"
    /\ drv' = [drv EXCEPT !.pc = "loop"]
    /\ DriverFrame

\* The ctrl-c handler: r.store(false).
Driver_ctrlc ==
    /\ drv.handler
    /\ drv.pc # "done"
    /\ drv.running
    /\ drv' = [drv EXCEPT !.running = FALSE]
    /\ DriverFrame

\* ------------------------------------------------------------- flag sets

\* MapBuilderFlags (bitflags, u64), in declaration order.
NO_PREALLOC == 1
NO_COMMON_LRU == Shl(1, 1)
NUMA_NODE == Shl(1, 2)
RDONLY == Shl(1, 3)
WRONLY == Shl(1, 4)
STACK_BUILD_ID == Shl(1, 5)
ZERO_SEED == Shl(1, 6)
RDONLY_PROG == Shl(1, 7)
WRONLY_PROG == Shl(1, 8)
CLONE_SameBitAsWronlyProg == Shl(1, 8)
CLONE == Shl(1, 9)
MMAPABLE == Shl(1, 10)

MapBuilderFlagSeq ==
    <<NO_PREALLOC, NO_COMMON_LRU, NUMA_NODE, RDONLY, WRONLY, STACK_BUILD_ID,
      ZERO_SEED, RDONLY_PROG, WRONLY_PROG, CLONE, MMAPABLE>>

FlagSetNames == {"MapFlags", "CgroupAttachFlags", "MapBuilderFlags"}

\* The named constants of a flag set.
FlagConsts(set) ==
    CASE set = "MapFlags" -> MapFlagValues
      [] set = "CgroupAttachFlags" -> {ALLOW_OVERRIDE, ALLOW_MULTI, REPLACE}
      [] set = "MapBuilderFlags" ->
            {MapBuilderFlagSeq[i] : i \in 1..Len(MapBuilderFlagSeq)}
      [] OTHER -> {}

\* Bitwise OR and AND of two u64 values.
RECURSIVE BitOr(_, _)
BitOr(a, b) ==
    IF a = 0 THEN b
    ELSE IF b = 0 THEN a
    ELSE (IF a % 2 = 1 \/ b % 2 = 1 THEN 1 ELSE 0) + 2 * BitOr(a \div 2, b \div 2)

RECURSIVE BitAnd(_, _)
BitAnd(a, b) ==
    IF a = 0 \/ b = 0 THEN 0
    ELSE (IF a % 2 = 1 /\ b % 2 = 1 THEN 1 ELSE 0) + 2 * BitAnd(a \div 2, b \div 2)

\* No flag value composed yet.
NoFlags == [set |-> "none", members |-> {}, bits |-> 0]

\* bitflags `empty()`: the value of a flag set with no bit set.
Flags_empty(set) ==
    /\ fl' = [set |-> set, members |-> {}, bits |-> 0]
    /\ UNCHANGED <<builder, liveHandles, loaded, maps, kmap, last, closes, progs, drv>>

\* bitflags `|`: the value with one more named constant OR-ed in.
Flags_or(f) ==
    /\ f \in FlagConsts(fl.set)
    /\ fl' = [fl EXCEPT !.members = @ \cup {f}, !.bits = BitOr(@, f)]
    /\ UNCHANGED <<builder, liveHandles, loaded, maps, kmap, last, closes, progs, drv>>

\* ------------------------------------------------------ specifications

Init ==
    /\ builder = DefaultBuilder
    /\ liveHandles = {}
    /\ loaded = {}
    /\ maps = {}
    /\ kmap = {}
    /\ last = NoCall
    /\ closes = [map |-> 0, prog |-> 0]
    /\ progs = <<>>
    /\ drv = DriverStart
    /\ fl = NoFlags

Next ==
    \/ \E n \in Names : set_name(n)
    \/ \E b \in BOOLEAN : set_relaxed_maps(b)
    \/ \E path \in Paths : from_path(path)
    \/ \E n \in Names, mem \in Mems : from_memory(n, mem)

Spec == Init /\ [][Next]_vars

\* The calls on Object, MapBuilder and Map values, and the kernel's side.
NextMap ==
    \/ \E n \in Names : Object_map(n)
    \/ MapBuilder_load
    \/ Map_value
    \/ \E via \in 1..MaxClones : Map_clone(via)
    \/ \E via \in 1..MaxClones : Map_drop(via)
    \/ \E via \in 1..MaxClones : Map_key_size(via)
    \/ \E via \in 1..MaxClones : Map_value_size(via)
    \/ \E via \in 1..MaxClones, key \in ByteStrings, flags \in MapFlagValues :
          Map_lookup(via, key, flags)
    \/ \E via \in 1..MaxClones, key \in ByteStrings : Map_delete(via, key)
    \/ \E via \in 1..MaxClones, key \in ByteStrings, flags \in MapFlagValues :
          Map_lookup_and_delete(via, key, flags)
    \/ \E via \in 1..MaxClones, key \in ByteStrings, value \in ByteStrings,
          flags \in MapFlagValues : Map_update(via, key, value, flags)
    \/ \E k \in SizedKeys, v \in SizedValues : KernelStore(k, v)
    \/ \E k \in SizedKeys : KernelRemove(k)

SpecMap == Init /\ [][NextMap]_vars

\* The calls on ProgramBuilder and Program values.
NextProg ==
    \/ \E n \in Names : Object_prog(n)
    \/ ProgramBuilder_load
    \/ \E t \in AttachTypes : Program_value(t)
    \/ \E via \in 1..MaxClones : Program_clone(via)
    \/ \E via \in 1..MaxClones : Program_drop(via)
    \/ \E via \in 1..MaxClones : Program_attach_type(via)
    \/ \E via \in 1..MaxClones, fd \in Fds, flags \in CgroupAttachFlagValues :
          Program_attach_cgroup(via, fd, flags)
    \/ \E via \in 1..MaxClones, fd \in Fds : Program_attach_perf_event(via, fd)

SpecProg == Init /\ [][NextProg]_vars

\* Composing values of the three flag sets.
NextFlags ==
    \/ \E set \in FlagSetNames : Flags_empty(set)
    \/ \E f \in 0..Shl(1, 10) : Flags_or(f)

SpecFlags == Init /\ [][NextFlags]_vars

\* The example driver.
NextDriver ==
    \/ \E verbose \in BOOLEAN, ip \in {"none", "some"} : Driver_parse(verbose, ip)
    \/ \E ok \in BOOLEAN : Driver_bump_memlock_rlimit(ok)
    \/ \E ok \in BOOLEAN : Driver_set_handler(ok)
    \/ \E ok \in BOOLEAN : Driver_open(ok)
    \/ \E ok \in BOOLEAN : Driver_load(ok)
    \/ \E ok \in BOOLEAN : Driver_open_cgroup(ok)
    \/ \E ok \in BOOLEAN : Driver_attach_cgroup(ok)
    \/ \E ok \in BOOLEAN : Driver_open_fd(ok)
    \/ \E ok \in BOOLEAN : Driver_setsockopt(ok)
    \/ Driver_loop_test
    \/ Driver_wake
    \/ Driver_ctrlc

SpecDriver == Init /\ [][NextDriver]_vars

\* ------------------------------------------------------------- claims

IsOpen(call) == call.op \in {"from_path", "from_memory"}
OpenedHandles(call) ==
    {call.trace[i].handle : i \in 1..Len(call.trace)} \ {NULL}
NativeOpenReturnedNull(call) ==
    Len(call.trace) >= 1 /\ call.trace[1].handle = NULL
NativeLoadReturned(call) ==
    IF Len(call.trace) = 2 THEN {call.trace[2].ret} ELSE {}
IsMapOp(call) ==
    call.op \in {"Map::lookup", "Map::delete", "Map::lookup_and_delete", "Map::update"}
WrongSize(call) ==
    \/ Len(call.key) # KeySize
    \/ call.op = "Map::update" /\ Len(call.value) # ValueSize
RightSize(call) == ~WrongSize(call)

\* C1: when from_path or from_memory has returned an error, no native handle
\* that call opened is still live.
C1_NoHandleLiveAfterError ==
    (IsOpen(last) /\ IsErr(last.result)) => OpenedHandles(last) \cap liveHandles = {}

\* C2: from_path on a path that is not valid unicode returns InvalidInput and
\* has made no native call (neither the open nor the load).
C2_NonUnicodePathIsInvalidInput ==
    (last.op = "from_path" /\ Contains(last.path, "BAD"))
        => (last.result = InvalidInput /\ last.trace = <<>>)

C2_Witness ==
    /\ last.op = "from_path"
    /\ Contains(last.path, "BAD")
    /\ last.result = InvalidInput
    /\ liveHandles # {}

\* C3: in from_path and from_memory, a null handle from the native open, or a
\* non-zero return of the native load on an opened handle, makes the call
\* return Internal: no other error and no Ok.
C3_OpenOrLoadFailureIsInternal ==
    (IsOpen(last) /\ (NativeOpenReturnedNull(last)
                      \/ \E ret \in NativeLoadReturned(last) : ret # 0))
        => last.result = Internal

C3_Witness ==
    /\ last.op = "from_memory"
    /\ ~NativeOpenReturnedNull(last)
    /\ NativeLoadReturned(last) = {1}
    /\ last.result = Internal

\* The other case of C3: the native open returned null.
C3_WitnessNull ==
    /\ last.op = "from_path"
    /\ NativeOpenReturnedNull(last)
    /\ last.result = Internal

\* C4: from_path on a well-formed artifact (the native open returns a handle
\* and the native load returns 0) returns Ok(Object).
C4_WellFormedArtifactIsOk ==
    (last.op = "from_path" /\ ~NativeOpenReturnedNull(last)
        /\ NativeLoadReturned(last) = {0})
        => last.result.kind = "Ok"

\* C5: a lookup, update, delete or lookup_and_delete with a key of the wrong
\* length (or an update with a value of the wrong length) returns
\* InvalidInput and leaves the map's contents as they were.
C5_WrongSizeIsInvalidInput ==
    [][(IsMapOp(last') /\ WrongSize(last'))
           => (last'.result = InvalidInput /\ kmap' = kmap)]_vars

C7_UpdateFlagsSelectCreateOrReplace ==
    [][(last'.op = "Map::update" /\ RightSize(last')
           /\ last'.flags \in {NO_EXIST, EXIST})
           => IF (last'.flags = NO_EXIST) = ~Present(last'.key)
              THEN /\ last'.result = Ok
                   /\ [key |-> last'.key, value |-> last'.value] \in kmap'
              ELSE /\ last'.result.kind # "Ok"
                   /\ kmap' = kmap]_vars

\* C8: for a key of the declared size that is absent, lookup returns
\* Ok(None) and delete returns an error.
C8_AbsentKeyLookupIsNone ==
    (IsMapOp(last) /\ RightSize(last) /\ ~Present(last.key))
        => /\ last.op = "Map::lookup" => last.result = OkNone
           /\ last.op = "Map::delete" => IsErr(last.result)

\* C9: an update made through one Map value is seen by the next lookup of
\* that key made through another (a clone or the original).
C9_UpdateThroughCloneIsVisible ==
    [][(/\ last.op = "Map::update" /\ last.flags = ANY /\ RightSize(last)
        /\ last'.op = "Map::lookup" /\ last'.key = last.key
        /\ last'.via # last.via)
           => last'.result = OkSome(last.value)]_vars

\* C10: lookup_and_delete of a present key returns what a lookup would have
\* returned, and the key is absent right after it.
C10_LookupAndDeleteRemoves ==
    [][(last'.op = "Map::lookup_and_delete" /\ RightSize(last')
           /\ Present(last'.key))
           => /\ last'.result = OkSome(ValueOf(last'.key))
              /\ ~\E e \in kmap' : e.key = last'.key]_vars

\* C11: once the last Map value (the original or a clone) has been dropped,
\* the map's descriptor has been closed exactly once.
C11_ClosedOnceOnLastDrop ==
    (last.op = "drop(Map)" /\ maps = {}) => closes.map = 1

C13_WrongAttachMethodIsInternal ==
    (last.op = "Program::attach_perf_event" /\ last.via \in DOMAIN progs
        /\ progs[last.via] = "cgroup")
        => last.result = Internal

IsBuilderCall(call) ==
    call.op \in {"set_name", "set_relaxed_maps", "from_path", "from_memory"}

Decode(set, bits) == {f \in FlagConsts(set) \ {0} : BitAnd(bits, f) = f}

\* C15: the constants have the kernel ABI's values (MapFlags 0, 1, 2, 4;
\* CgroupAttachFlags 1, 2, 4; MapBuilderFlags 1 << 0 .. 1 << 10 in
\* declaration order); the OR of any subset of a set's non-zero constants
\* determines that subset; OR-ing ANY into a value leaves it unchanged.
C15_FlagLayout ==
    /\ <<ANY, NO_EXIST, EXIST, LOCK>> = <<0, 1, 2, 4>>
    /\ <<ALLOW_OVERRIDE, ALLOW_MULTI, REPLACE>> = <<1, 2, 4>>
    /\ Len(MapBuilderFlagSeq) = 11
    /\ \A i \in 1..Len(MapBuilderFlagSeq) : MapBuilderFlagSeq[i] = 2^(i - 1)
    /\ fl.members \ {0} = Decode(fl.set, fl.bits)
    /\ BitOr(ANY, fl.bits) = fl.bits
    /\ BitOr(fl.bits, ANY) = fl.bits

C15_Witness ==
    /\ fl.set = "MapBuilderFlags"
    /\ fl.members = FlagConsts("MapBuilderFlags")
    /\ fl.bits = 2047

\* The object name the native open of `call` was handed.
NativeOpenName(call) == call.trace[1].opts.object_name
ReachedNativeOpen(call) == IsOpen(call) /\ Len(call.trace) >= 1

C16_WitnessFromPath ==
    /\ last.op = "from_path"
    /\ Len(last.trace) >= 1
    /\ builder.name = <<"a", "a">>
    /\ to_bytes(NativeOpenName(last)) = builder.name

ObjectConstructed(call) == call.result = Object_new(0)

\* C18: in one from_path / from_memory call there is at most one native open
\* and then at most one native load; the load is made only on the non-null
\* handle the open returned; the Object is constructed only after the load
\* returned 0.
C18_NativeStepsInOrder ==
    IsOpen(last)
        => /\ Len(last.trace) <= 2
           /\ Len(last.trace) >= 1
                => last.trace[1].fn = (IF last.op = "from_path"
                                       THEN "bpf_object__open_file"
                                       ELSE "bpf_object__open_mem")
           /\ Len(last.trace) = 2
                => /\ last.trace[2].fn = "bpf_object__load"
                   /\ last.trace[1].handle # NULL
                   /\ last.trace[2].handle = last.trace[1].handle
           /\ ObjectConstructed(last) <=> NativeLoadReturned(last) = {0}

C18_Witness ==
    /\ last.op = "from_memory"
    /\ NativeLoadReturned(last) = {0}
    /\ ObjectConstructed(last)
    /\ last.trace[2].handle = 2

\* C20: set_name changes only the name and set_relaxed_maps only the flag,
\* to the value given, and neither fails; from_path and from_memory leave
\* both fields as they were; the options handed to the native open carry the
\* builder's relaxed_maps (false until set), relaxed_core_relocs false, no
\* pin root path, attach_prog_fd 0 and no kconfig.
C20_BuilderFrame ==
    /\ [](last = NoCall => builder.relaxed_maps = FALSE)
    /\ [][/\ last'.op = "set_name"
               => /\ builder'.name = last'.name
                  /\ builder'.relaxed_maps = builder.relaxed_maps
                  /\ last'.result = Ok
          /\ last'.op = "set_relaxed_maps"
               => /\ builder'.relaxed_maps = last'.value[1]
                  /\ builder'.name = builder.name
                  /\ last'.result = Ok
          /\ IsOpen(last') => builder' = builder
          /\ ReachedNativeOpen(last')
               => LET o == last'.trace[1].opts IN
                  /\ o.relaxed_maps = builder.relaxed_maps
                  /\ o.relaxed_core_relocs = FALSE
                  /\ o.pin_root_path = NULLSTR
                  /\ o.attach_prog_fd = 0
                  /\ o.kconfig = NULLSTR]_vars

C20_Witness ==
    /\ ReachedNativeOpen(last)
    /\ builder = [name |-> <<"a">>, relaxed_maps |-> TRUE]
    /\ last.trace[1].opts.relaxed_maps = TRUE
    /\ liveHandles # {}

\* C19: in the driver the Link is held, and the cgroup attachment live, from
\* the attach to the end of the wait loop; the Link is given up only when
\* main is left; and nothing is opened, loaded or attached unless the
\* memlock rlimit was raised first.
C19_LinkHeldThroughLoop ==
    /\ [](drv.pc \in {"attached", "socket", "loop", "sleeping"}
            => (drv.link /\ drv.attached))
    /\ []((drv.opened \/ drv.loaded \/ drv.everAttached) => drv.rlimit)
    /\ [][(drv.link /\ ~drv'.link) => drv'.pc = "done"]_vars

\* Ctrl-c has come while the loop sleeps: the attachment is still live.
C19_Witness ==
    /\ drv.pc = "sleeping"
    /\ ~drv.running
    /\ drv.link
    /\ drv.attached

\* The other case of C19: the rlimit bump failed and main is left.
C19_WitnessBumpFailed ==
    /\ drv.pc = "done"
    /\ drv.result = "Err"
    /\ ~drv.rlimit
    /\ ~drv.opened /\ ~drv.loaded /\ ~drv.everAttached

====
